---------------------------- MODULE Spec2Model ----------------------------
(***************************************************************************)
(* A model of PictureList_Import.jsx: a script that localizes a template   *)
(* document.  It reads a worksheet whose columns are languages, matches    *)
(* every row's source-language text to a text layer of the template        *)
(* (mapTextLayers), and writes every selected target language's text into  *)
(* a fresh copy of the template (generateLocalizedFiles).                  *)
(*                                                                         *)
(* Strings the script takes apart (layer texts, cells, file names) are     *)
(* sequences of one-character strings.  Array indices are those of the     *)
(* script (0-based) wherever they are stored as values (layerIndices,      *)
(* textLayerMap); TLA+ sequences are 1-based, so element index e is        *)
(* position e + 1 of a sequence.                                           *)
(***************************************************************************)
EXTENDS Integers, Sequences, FiniteSets, TLC

\* ------------------------------------------------------------------ bounds
MaxRows == 2
MaxLayers == 2
MaxNameLen == 3

\* ---------------------------------------------------------------- constants
ADOBE_PHOTOSHOP == "Adobe Photoshop"
ADOBE_ILLUSTRATOR == "Adobe Illustrator"
ADOBE_INDESIGN == "Adobe InDesign"
\* A host whose app.name is none of the three above.
OTHER_APPLICATION == "Adobe Bridge"

appFiletypes ==
  [a \in {ADOBE_PHOTOSHOP, ADOBE_ILLUSTRATOR, ADOBE_INDESIGN} |->
     CASE a = ADOBE_PHOTOSHOP -> <<"Photoshop:*.psd;*.pdd;*.psdt", "Large Document Format:*.psb">>
       [] a = ADOBE_ILLUSTRATOR -> <<"Illustrator:*.ai">>
       [] a = ADOBE_INDESIGN -> <<"InDesign:*.indd">>]

\* The characters /\s/ matches, among the characters of the model.
WhitespaceChars == {" ", "\t", "\n"}

NO_MATCH == -1
NULL == "null"
ROW_NUM == "__rowNum__"

\* ------------------------------------------------------------------ inputs
AppNames == {ADOBE_PHOTOSHOP, ADOBE_ILLUSTRATOR, ADOBE_INDESIGN, OTHER_APPLICATION}

\* Layer texts: "a", " a<TAB>" (the same but for whitespace), "A".
Texts == { <<"a">>, <<" ", "a", "\t">>, <<"A">> }

\* Source-language cell texts: "a", "<NEWLINE>A".
CellTexts == { <<"a">>, <<"\n", "A">> }

\* The template's name on disk.
TemplateNames == { <<"t", ".", "p">> }

\* Object.keys of a worksheet row, in key order.
KeyLists == { <<"en">>, <<ROW_NUM, "en">>, <<"en", "fr">>, <<ROW_NUM, "en", "fr", "de">> }

\* The characters of a column name.
Chars(lang) ==
  CASE lang = "en" -> <<"e", "n">>
    [] lang = "fr" -> <<"f", "r">>
    [] lang = "de" -> <<"d", "e">>
    [] OTHER -> <<"x">>

Range(s) == {s[i] : i \in DOMAIN s}
SeqsUpTo(S, n) == UNION {[1..k -> S] : k \in 0..n}
Min(S) == CHOOSE x \in S : \A y \in S : x <= y
Max(a, b) == IF a >= b THEN a ELSE b

\* A document: its layers in document order.  Text frames and text layers are
\* the layers of kind TEXT.
TextLayer(t) == [kind |-> "TEXT", contents |-> t]
ArtLayer == [kind |-> "NORMAL", contents |-> <<>>]
Documents == SeqsUpTo({ArtLayer} \cup {TextLayer(t) : t \in Texts}, MaxLayers)

\* A worksheet as XLSX.utils.sheet_to_json returns it: one object per row, keyed by
\* column.  The template is written in the first language ("en"), whose cells are
\* free; the cell of row r in another language is that row's translation, a text
\* of its own.
Cell(key, r, enText) ==
  CASE key = ROW_NUM -> <<ToString(r)>>
    [] key = "en" -> enText
    [] OTHER -> <<Chars(key)[1], ToString(r)>>
Row(keys, r, enText) ==
  [keys |-> keys, cell |-> [k \in Range(keys) |-> Cell(k, r, enText)]]
Worksheets ==
  {[r \in 1..Len(en) |-> Row(keys, r, en[r])] : keys \in KeyLists, en \in SeqsUpTo(CellTexts, MaxRows)}

\* ------------------------------------------------------------------- state
VARIABLES
  appName,            \* app.name
  documents,          \* app.documents.length
  templateName,       \* the name of the template file on disk
  files,              \* the file system: file name -> document
  pc,                 \* main's position
  ccFile,             \* main: ccFile (its name), or NoFile for null
  worksheetData,      \* main: worksheetData
  languages,          \* main: languages
  dialog,             \* userSelectLanguages: the dialog's controls
  selectedLanguages,  \* main: selectedLanguages
  layerIndices,       \* mapTextLayers: layerIndices
  layerTextStrings,   \* mapTextLayers: layerTextStrings
  textLayerMap,       \* mapTextLayers: textLayerMap
  missingText,        \* mapTextLayers: missingText
  mapReturned,        \* main: what mapTextLayers returned: "none", "null", "array"
  confirmMissing,     \* confirm(MISSING_SHEET_ROWS): "none" (not shown), "declined", "accepted"
  langIndex,          \* generateLocalizedFiles: langIndex
  targetDoc,          \* generateLocalizedFiles: the open copy, or NoDoc
  failedLang,         \* which target language's copy, open or save threw (from 1), or 0
  dataLayerIndices,   \* older script, generateLocalizedFiles: dataLayerIndices
  oldDataRow,         \* older script, generateLocalizedFiles: dataRow
  alerts,             \* the alerts shown, in order
  effects,            \* what the script did to documents and files so far
  fnCall              \* a call of generateTargetFilename: its arguments and result

vars == <<appName, documents, templateName, files, pc, ccFile, worksheetData,
          languages, dialog, selectedLanguages, layerIndices, layerTextStrings,
          textLayerMap, missingText, mapReturned, confirmMissing, langIndex,
          targetDoc, failedLang, dataLayerIndices, oldDataRow, alerts, effects, fnCall>>

envVars == <<appName, templateName>>
mapVars == <<layerIndices, layerTextStrings, textLayerMap, missingText, mapReturned,
            confirmMissing>>
genVars == <<langIndex, targetDoc, failedLang>>
oldVars == <<dataLayerIndices, oldDataRow>>

NoFile == <<>>
NoDoc == [file |-> NoFile, layers |-> <<>>]
NoDialog == [currentLang |-> NULL, selection |-> NULL, enabled |-> <<>>, value |-> <<>>]
NoSelection == [source |-> NULL, target |-> <<>>]
NoCall == [sourceName |-> <<>>, targetLang |-> <<>>, result |-> <<>>]

Init ==
  /\ appName \in AppNames
  /\ documents \in {0, 1}
  /\ templateName \in TemplateNames
  /\ \E d \in Documents : files = [n \in {templateName} |-> d]
  /\ pc = "getCCFile"
  /\ ccFile = NoFile
  /\ worksheetData = <<>>
  /\ languages = <<>>
  /\ dialog = NoDialog
  /\ selectedLanguages = NoSelection
  /\ layerIndices = <<>>
  /\ layerTextStrings = <<>>
  /\ textLayerMap = <<>>
  /\ missingText = <<>>
  /\ mapReturned = "none"
  /\ confirmMissing = "none"
  /\ langIndex = 0
  /\ targetDoc = NoDoc
  /\ failedLang = 0
  /\ dataLayerIndices = <<>>
  /\ oldDataRow = 0
  /\ alerts = <<>>
  /\ effects = {}
  /\ fnCall = NoCall

\* ------------------------------------------------------------ main, part 1
\* getCCFile, and main's return when it gives null.
GetCCFile ==
  /\ pc = "getCCFile"
  /\ IF documents = 0
       THEN IF appName \notin DOMAIN appFiletypes
              THEN /\ alerts' = Append(alerts, "UNSUPPORTED_APPLICATION")
                   /\ ccFile' = NoFile
                   /\ pc' = "done"
              ELSE \* File.openDialog: the user picks the template, or cancels
                   /\ alerts' = alerts
                   /\ \/ ccFile' = templateName /\ pc' = "getPictureListFile"
                      \/ ccFile' = NoFile /\ pc' = "done"
       ELSE /\ alerts' = alerts
            /\ ccFile' = templateName
            /\ pc' = "getPictureListFile"
  /\ UNCHANGED <<envVars, oldVars, documents, files, worksheetData, languages, dialog,
                 selectedLanguages,
                 mapVars, genVars, effects, fnCall>>

\* getPictureListFile: the user picks the picture list, or cancels.
GetPictureListFile ==
  /\ pc = "getPictureListFile"
  /\ pc' \in {"confirmLoad", "done"}
  /\ UNCHANGED <<envVars, oldVars, documents, files, ccFile, worksheetData, languages,
                 dialog,
                 selectedLanguages, mapVars, genVars, alerts, effects, fnCall>>

\* confirm(FILE_LOAD_CONFIRM)
ConfirmLoad ==
  /\ pc = "confirmLoad"
  /\ pc' \in {"readFile", "done"}
  /\ UNCHANGED <<envVars, oldVars, documents, files, ccFile, worksheetData, languages,
                 dialog,
                 selectedLanguages, mapVars, genVars, alerts, effects, fnCall>>

\* XLSX.readFile, which may throw.
ReadWorkbook ==
  /\ pc = "readFile"
  /\ \/ pc' = "loadWorksheetData" /\ alerts' = alerts
     \/ pc' = "done" /\ alerts' = Append(alerts, "PICTURE_LIST_LOAD_ERROR")
  /\ UNCHANGED <<envVars, oldVars, documents, files, ccFile, worksheetData, languages,
                 dialog,
                 selectedLanguages, mapVars, genVars, effects, fnCall>>

\* loadWorksheetData: the user cancels, or the chosen sheet is converted to rows.
LoadWorksheetData ==
  /\ pc = "loadWorksheetData"
  /\ \/ pc' = "done" /\ worksheetData' = worksheetData
     \/ pc' = "getLanguages" /\ worksheetData' \in Worksheets
  /\ UNCHANGED <<envVars, oldVars, documents, files, ccFile, languages, dialog,
                 selectedLanguages,
                 mapVars, genVars, alerts, effects, fnCall>>

\* Array.indexOf: the 0-based index of the first x in s, or -1.
IndexOf(s, x) ==
  IF \E i \in DOMAIN s : s[i] = x THEN Min({i \in DOMAIN s : s[i] = x}) - 1 ELSE -1

\* s.splice(i, 1), i a 0-based index of s.
Splice(s, i) == SubSeq(s, 1, i) \o SubSeq(s, i + 2, Len(s))

\* The list of languages: the first row's keys without "__rowNum__".
GetLanguageList(row) ==
  LET keys == row.keys
      rowNumPropIndex == IndexOf(keys, ROW_NUM)
  IN IF rowNumPropIndex # -1 THEN Splice(keys, rowNumPropIndex) ELSE keys

\* main's test for a table with no target language.
TooFewLanguages(langs) == Len(langs) < 2

\* The dialog as userSelectLanguages builds it: the first language is the source,
\* its checkbox disabled and unchecked, every other checkbox enabled and checked.
NewDialog(langs) ==
  [currentLang |-> langs[1],
   selection |-> langs[1],
   enabled |-> [l \in Range(langs) |-> l # langs[1]],
   value |-> [l \in Range(langs) |-> l # langs[1]]]

\* main: the list of languages, then the dialog is shown.  An empty worksheet has
\* no first row: Object.keys(undefined) throws and the script ends.
GetLanguages ==
  /\ pc = "getLanguages"
  /\ IF worksheetData = <<>>
       THEN /\ pc' = "done"
            /\ UNCHANGED <<languages, dialog, alerts>>
       ELSE /\ languages' = GetLanguageList(worksheetData[1])
            /\ IF TooFewLanguages(languages')
                 THEN /\ alerts' = Append(alerts, "NO_TARGET_LANGS_FOUND")
                      /\ pc' = "done"
                      /\ dialog' = dialog
                 ELSE /\ alerts' = alerts
                      /\ pc' = "dialog"
                      /\ dialog' = NewDialog(languages')
  /\ UNCHANGED <<envVars, oldVars, documents, files, ccFile, worksheetData,
                 selectedLanguages,
                 mapVars, genVars, effects, fnCall>>

\* ------------------------------------------------------- userSelectLanguages
\* The dropdown's selection becomes lang and srcLangDropdown.onChange runs.
OnChangeNoUncheckBug(dlg, lang) ==
  IF lang # dlg.currentLang
    THEN [dlg EXCEPT !.selection = lang,
                     !.enabled = [dlg.enabled EXCEPT ![dlg.currentLang] = TRUE, ![lang] = FALSE],
                     !.currentLang = lang]
    ELSE [dlg EXCEPT !.selection = lang]

OnChange(dlg, lang) ==
  IF lang # dlg.currentLang
    THEN [dlg EXCEPT !.selection = lang,
                     !.enabled = [dlg.enabled EXCEPT ![dlg.currentLang] = TRUE, ![lang] = FALSE],
                     !.value = [dlg.value EXCEPT ![lang] = FALSE],
                     !.currentLang = lang]
    ELSE [dlg EXCEPT !.selection = lang]

SrcLangChange ==
  /\ pc = "dialog"
  /\ \E lang \in Range(languages) : dialog' = OnChange(dialog, lang)
  /\ UNCHANGED <<envVars, oldVars, documents, files, pc, ccFile, worksheetData, languages,
                 selectedLanguages, mapVars, genVars, alerts, effects, fnCall>>

\* The user clicks an enabled checkbox.
ToggleTarget ==
  /\ pc = "dialog"
  /\ \E lang \in Range(languages) :
       /\ dialog.enabled[lang]
       /\ dialog' = [dialog EXCEPT !.value = [dialog.value EXCEPT ![lang] = ~dialog.value[lang]]]
  /\ UNCHANGED <<envVars, oldVars, documents, files, pc, ccFile, worksheetData, languages,
                 selectedLanguages, mapVars, genVars, alerts, effects, fnCall>>

\* Cancel: show() is 2, userSelectLanguages returns {source: null}, main returns.
DialogCancel ==
  /\ pc = "dialog"
  /\ pc' = "done"
  /\ selectedLanguages' = NoSelection
  /\ dialog' = NoDialog
  /\ UNCHANGED <<envVars, oldVars, documents, files, ccFile, worksheetData, languages,
                 mapVars, genVars, alerts, effects, fnCall>>

\* What userSelectLanguages returns on OK.
SelectedOf(dlg, langs) ==
  [source |-> dlg.selection,
   target |-> SelectSeq(langs, LAMBDA l : dlg.value[l])]

DialogOK ==
  /\ pc = "dialog"
  /\ pc' = "checkSelection"
  /\ selectedLanguages' = SelectedOf(dialog, languages)
  /\ dialog' = NoDialog
  /\ UNCHANGED <<envVars, oldVars, documents, files, ccFile, worksheetData, languages,
                 mapVars, genVars, alerts, effects, fnCall>>

\* ------------------------------------------------------------ main, part 2
NoTargetsNeverBug(sel) == Len(sel.target) < 0

\* main's test for an empty selection of target languages.
NoTargets(sel) == Len(sel.target) = 0

CheckSelection ==
  /\ pc = "checkSelection"
  /\ IF NoTargets(selectedLanguages)
       THEN alerts' = Append(alerts, "NO_TARGET_LANGS_SELECTED") /\ pc' = "done"
       ELSE alerts' = alerts /\ pc' = "mapTextLayers"
  /\ UNCHANGED <<envVars, oldVars, documents, files, ccFile, worksheetData, languages,
                 dialog,
                 selectedLanguages, mapVars, genVars, effects, fnCall>>

\* ------------------------------------------------------ document access
\* document.textFrames: the document's text frames, in document order (each a
\* reference: the position of the layer in the document).
TextFrames(doc) ==
  LET F[i \in 0..Len(doc)] ==
        IF i = 0 THEN <<>>
        ELSE IF doc[i].kind = "TEXT" THEN Append(F[i - 1], i) ELSE F[i - 1]
  IN F[Len(doc)]

\* getDocumentTextLayers: the text frames, or (Photoshop, and any other host) the
\* layers of kind LayerKind.TEXT collected in layer order.
getDocumentTextLayers(app, doc) ==
  CASE app \in {ADOBE_ILLUSTRATOR, ADOBE_INDESIGN} -> TextFrames(doc)
    [] OTHER ->
         LET L[i \in 0..Len(doc)] ==
               IF i = 0 THEN <<>>
               ELSE IF doc[i].kind = "TEXT" THEN Append(L[i - 1], i) ELSE L[i - 1]
         IN L[Len(doc)]

\* getLayerText: layer.contents, or layer.textItem.contents; the same string.
getLayerText(app, doc, layer) ==
  CASE app \in {ADOBE_ILLUSTRATOR, ADOBE_INDESIGN} -> doc[layer].contents
    [] OTHER -> doc[layer].contents

\* setLayerText: the document with the layer's text replaced.
setLayerText(app, doc, layer, newText) ==
  CASE app \in {ADOBE_ILLUSTRATOR, ADOBE_INDESIGN} -> [doc EXCEPT ![layer].contents = newText]
    [] OTHER -> [doc EXCEPT ![layer].contents = newText]

\* ------------------------------------------------------------ mapTextLayers
\* A replace with the regular expression lacking its g flag: the first whitespace
\* character only.
ReplaceFirstWhitespaceBug(str) ==
  IF \E i \in DOMAIN str : str[i] \in WhitespaceChars
    THEN Splice(str, Min({i \in DOMAIN str : str[i] \in WhitespaceChars}) - 1)
    ELSE str

\* str.replace(WHITESPACE_REGEX, ""): every whitespace character removed.
ReplaceWhitespace(str) == SelectSeq(str, LAMBDA c : c \notin WhitespaceChars)

\* The search without the two splices: a matched layer stays in the pool.
findMatchingTextLayerNoSpliceBug(strings, indices, searchText) ==
  LET hits == {i \in 1..Len(indices) : strings[i] = searchText}
  IN IF hits = {}
       THEN [matchIndex |-> NO_MATCH, strings |-> strings, indices |-> indices]
       ELSE [matchIndex |-> indices[Min(hits)], strings |-> strings, indices |-> indices]

\* The search returning the position in the pool, not the layer index kept there.
findMatchingTextLayerPositionBug(strings, indices, searchText) ==
  LET hits == {i \in 1..Len(indices) : strings[i] = searchText}
  IN IF hits = {}
       THEN [matchIndex |-> NO_MATCH, strings |-> strings, indices |-> indices]
       ELSE [matchIndex |-> Min(hits) - 1,
             strings |-> Splice(strings, Min(hits) - 1),
             indices |-> Splice(indices, Min(hits) - 1)]

\* findMatchingTextLayer: the first position i of the pool whose string is the
\* search text; the layer index there is returned and position i is spliced out of
\* both arrays.  NO_MATCH when there is none.
findMatchingTextLayer(strings, indices, searchText) ==
  LET hits == {i \in 1..Len(indices) : strings[i] = searchText}
  IN IF hits = {}
       THEN [matchIndex |-> NO_MATCH, strings |-> strings, indices |-> indices]
       ELSE [matchIndex |-> indices[Min(hits)],
             strings |-> Splice(strings, Min(hits) - 1),
             indices |-> Splice(indices, Min(hits) - 1)]

\* The test written if (!layerMatchIndex): true of index 0, false of -1.
PushMissingFalsyBug(missing, layerMatchIndex, text) ==
  IF layerMatchIndex = 0 THEN Append(missing, text) ELSE missing

\* if (layerMatchIndex === -1) missingText.push(...)
PushMissing(missing, layerMatchIndex, text) ==
  IF layerMatchIndex = NO_MATCH THEN Append(missing, text) ELSE missing

\* The source document is opened (if the template is the active document, it is
\* that document), its text layers' strings are collected without their
\* whitespace, and it is closed.  app.open may throw: nothing catches it.
MapOpen ==
  /\ pc = "mapTextLayers"
  /\ \/ /\ pc' = "done"
        /\ UNCHANGED <<layerIndices, layerTextStrings, effects, documents>>
     \/ LET sourceDocument == files[ccFile]
            textLayers == getDocumentTextLayers(appName, sourceDocument)
        IN /\ layerIndices' = [i \in 1..Len(textLayers) |-> i - 1]
           /\ layerTextStrings' =
                [i \in 1..Len(textLayers) |->
                   ReplaceWhitespace(getLayerText(appName, sourceDocument, textLayers[i]))]
           /\ effects' = effects \cup {"open"}
           /\ documents' = 0
           /\ pc' = "mapRows"
  /\ UNCHANGED <<envVars, oldVars, files, ccFile, worksheetData, languages, dialog,
                 selectedLanguages, textLayerMap, missingText, mapReturned,
                 confirmMissing, genVars, alerts, fnCall>>

\* One turn of the loop over the rows; dataRow is textLayerMap.length.
MapRow ==
  /\ pc = "mapRows"
  /\ Len(textLayerMap) < Len(worksheetData)
  /\ LET dataRow == Len(textLayerMap)
         sourceText == worksheetData[dataRow + 1].cell[selectedLanguages.source]
         trimmedSourceText == ReplaceWhitespace(sourceText)
         found == findMatchingTextLayer(layerTextStrings, layerIndices, trimmedSourceText)
     IN /\ layerTextStrings' = found.strings
        /\ layerIndices' = found.indices
        /\ textLayerMap' = Append(textLayerMap, found.matchIndex)
        /\ missingText' = PushMissing(missingText, found.matchIndex, sourceText)
  /\ UNCHANGED <<envVars, oldVars, documents, files, pc, ccFile, worksheetData,
                 languages, dialog,
                 selectedLanguages, mapReturned, confirmMissing, genVars, alerts,
                 effects, fnCall>>

\* if (missingText.length > 1): the confirmation is shown for two rows or more.
HasMissingTextSeveralBug(missing) == Len(missing) > 1

\* if (missingText.length > 0)
HasMissingText(missing) == Len(missing) > 0

\* After the loop: if rows are missing, the user is asked; the user declines,
\* mapTextLayers returns null and main returns; or the user accepts, or nothing is
\* missing, mapTextLayers returns the map and main calls generateLocalizedFiles.
MapFinish ==
  /\ pc = "mapRows"
  /\ Len(textLayerMap) = Len(worksheetData)
  /\ IF HasMissingText(missingText)
       THEN \/ /\ confirmMissing' = "declined"
               /\ mapReturned' = "null"
               /\ pc' = "done"
            \/ /\ confirmMissing' = "accepted"
               /\ mapReturned' = "array"
               /\ pc' = "genCopy"
       ELSE /\ confirmMissing' = "none"
            /\ mapReturned' = "array"
            /\ pc' = "genCopy"
  /\ UNCHANGED <<envVars, oldVars, documents, files, ccFile, worksheetData, languages,
                 dialog,
                 selectedLanguages, layerIndices, layerTextStrings, textLayerMap,
                 missingText, genVars, alerts, effects, fnCall>>

\* --------------------------------------------------- generateTargetFilename
\* sourceName.split(".")
RECURSIVE Split(_)
Split(str) ==
  IF str = <<>> THEN << <<>> >>
  ELSE LET rest == Split(Tail(str))
       IN IF Head(str) = "."
            THEN << <<>> >> \o rest
            ELSE << <<Head(str)>> \o rest[1] >> \o Tail(rest)

\* nameComponents.join(".")
RECURSIVE Join(_)
Join(components) ==
  IF Len(components) = 1 THEN components[1]
  ELSE components[1] \o <<".">> \o Join(Tail(components))

\* The suffix forgotten: the copy gets the template's own name.
generateTargetFilenameNoSuffixBug(sourceName, targetLang) == sourceName

\* The suffix added to the last component.
generateTargetFilenameLastBug(sourceName, targetLang) ==
  LET nameComponents == Split(sourceName)
  IN Join([nameComponents EXCEPT ![Len(nameComponents)] = @ \o <<"_">> \o targetLang])

generateTargetFilename(sourceName, targetLang) ==
  LET nameComponents == Split(sourceName)
      i == Max(0, Len(nameComponents) - 2)
  IN Join([nameComponents EXCEPT ![i + 1] = @ \o <<"_">> \o targetLang])

\* --------------------------------------------------- generateLocalizedFiles
\* The file of the variant of the target language at langIndex.
TargetFile(k) == generateTargetFilename(ccFile, Chars(selectedLanguages.target[k + 1]))

\* The loop over the rows writing the first target language's cells whatever the
\* current language is.
WriteRowsFirstLangBug(doc, currentLang) ==
  LET textLayers == getDocumentTextLayers(appName, doc)
      W[n \in 0..Len(worksheetData)] ==
        IF n = 0 THEN doc
        ELSE LET layerIndex == textLayerMap[n]
             IN IF layerIndex # NO_MATCH
                  THEN setLayerText(appName, W[n - 1], textLayers[layerIndex + 1],
                                    worksheetData[n].cell[selectedLanguages.target[1]])
                  ELSE W[n - 1]
  IN W[Len(worksheetData)]

\* The loop over the rows: every row with a layer index writes its cell of the
\* current language into that text layer of the open copy.
WriteRows(doc, currentLang) ==
  LET textLayers == getDocumentTextLayers(appName, doc)
      W[n \in 0..Len(worksheetData)] ==
        IF n = 0 THEN doc
        ELSE LET layerIndex == textLayerMap[n]
             IN IF layerIndex # NO_MATCH
                  THEN setLayerText(appName, W[n - 1], textLayers[layerIndex + 1],
                                    worksheetData[n].cell[currentLang])
                  ELSE W[n - 1]
  IN W[Len(worksheetData)]

\* ccFile.copy(targetFile)
GenCopy ==
  /\ pc = "genCopy"
  /\ langIndex < Len(selectedLanguages.target)
  /\ LET targetFile == TargetFile(langIndex)
     IN files' = [n \in DOMAIN files \cup {targetFile} |->
                    IF n = targetFile THEN files[ccFile] ELSE files[n]]
  /\ effects' = effects \cup {"copy"}
  /\ pc' = "genOpen"
  /\ UNCHANGED <<envVars, oldVars, documents, ccFile, worksheetData, languages, dialog,
                 selectedLanguages, mapVars, genVars, alerts, fnCall>>

\* app.open(targetFile), then the loop over the rows in the open copy.
GenOpenWrite ==
  /\ pc = "genOpen"
  /\ targetDoc' = [file |-> TargetFile(langIndex),
                   layers |-> WriteRows(files[TargetFile(langIndex)],
                                        selectedLanguages.target[langIndex + 1])]
  /\ effects' = effects \cup {"open"} \cup
                  (IF \E n \in DOMAIN textLayerMap : textLayerMap[n] # NO_MATCH
                     THEN {"write"} ELSE {})
  /\ documents' = documents + 1
  /\ pc' = "genSave"
  /\ UNCHANGED <<envVars, oldVars, files, ccFile, worksheetData, languages, dialog,
                 selectedLanguages, mapVars, langIndex, failedLang, alerts, fnCall>>

\* targetDoc.save(), targetDoc.close(), and the loop's ++langIndex.
GenSaveClose ==
  /\ pc = "genSave"
  /\ files' = [files EXCEPT ![targetDoc.file] = targetDoc.layers]
  /\ effects' = effects \cup {"save"}
  /\ targetDoc' = NoDoc
  /\ langIndex' = langIndex + 1
  /\ documents' = documents - 1
  /\ pc' = "genCopy"
  /\ UNCHANGED <<envVars, oldVars, ccFile, worksheetData, languages, dialog,
                 selectedLanguages, mapVars, failedLang, alerts, fnCall>>

\* A try/catch inside the loop over the languages: the language whose copy, open
\* or save threw is skipped and the loop goes on with the next one.
GenThrowSkipBug ==
  /\ \/ pc = "genCopy" /\ langIndex < Len(selectedLanguages.target)
     \/ pc = "genOpen"
     \/ pc = "genSave"
  /\ failedLang' = langIndex + 1
  /\ targetDoc' = NoDoc
  /\ langIndex' = langIndex + 1
  /\ pc' = "genCopy"
  /\ UNCHANGED <<envVars, oldVars, documents, files, ccFile, worksheetData, languages,
                 dialog,
                 selectedLanguages, mapVars, alerts, effects, fnCall>>

\* The copy, the open or the save throws: generateLocalizedFiles is left at once
\* and main's catch reports it.
GenThrow ==
  /\ \/ pc = "genCopy" /\ langIndex < Len(selectedLanguages.target)
     \/ pc = "genOpen"
     \/ pc = "genSave"
  /\ failedLang' = langIndex + 1
  /\ alerts' = Append(alerts, "FILE_LOCALIZE_ERROR")
  /\ pc' = "done"
  /\ UNCHANGED <<envVars, oldVars, documents, files, ccFile, worksheetData, languages,
                 dialog,
                 selectedLanguages, mapVars, langIndex, targetDoc, effects, fnCall>>

\* generateLocalizedFiles returns: main reports the number of target languages.
GenDone ==
  /\ pc = "genCopy"
  /\ langIndex = Len(selectedLanguages.target)
  /\ alerts' = Append(alerts, "FILE_LOCALIZE_SUCCESS")
  /\ pc' = "done"
  /\ UNCHANGED <<envVars, oldVars, documents, files, ccFile, worksheetData, languages,
                 dialog,
                 selectedLanguages, mapVars, genVars, effects, fnCall>>

Next ==
  \/ GetCCFile
  \/ GetPictureListFile
  \/ ConfirmLoad
  \/ ReadWorkbook
  \/ LoadWorksheetData
  \/ GetLanguages
  \/ SrcLangChange
  \/ ToggleTarget
  \/ DialogCancel
  \/ DialogOK
  \/ CheckSelection
  \/ MapOpen
  \/ MapRow
  \/ MapFinish
  \/ GenCopy
  \/ GenOpenWrite
  \/ GenSaveClose
  \/ GenThrow
  \/ GenDone

Spec == Init /\ [][Next]_vars

\* ------------------------------------- generateTargetFilename, on its own
\* File names and language names the function is applied to.
FileNames == SeqsUpTo({"t", "p", "."}, MaxNameLen) \ {<<>>}
TargetLangNames == {Chars("fr"), Chars("de"), <<"e">>, <<"z", ".", "h">>}

InitFilename ==
  /\ appName = ADOBE_PHOTOSHOP
  /\ documents = 0
  /\ templateName \in TemplateNames
  /\ files = [n \in {templateName} |-> <<>>]
  /\ pc = "filename"
  /\ ccFile = NoFile
  /\ worksheetData = <<>>
  /\ languages = <<>>
  /\ dialog = NoDialog
  /\ selectedLanguages = NoSelection
  /\ layerIndices = <<>>
  /\ layerTextStrings = <<>>
  /\ textLayerMap = <<>>
  /\ missingText = <<>>
  /\ mapReturned = "none"
  /\ confirmMissing = "none"
  /\ langIndex = 0
  /\ targetDoc = NoDoc
  /\ failedLang = 0
  /\ dataLayerIndices = <<>>
  /\ oldDataRow = 0
  /\ alerts = <<>>
  /\ effects = {}
  /\ \E n \in FileNames, l \in TargetLangNames :
       fnCall = [sourceName |-> n, targetLang |-> l, result |-> <<>>]

CallGenerateTargetFilename ==
  /\ pc = "filename"
  /\ fnCall' = [fnCall EXCEPT !.result = generateTargetFilename(fnCall.sourceName, fnCall.targetLang)]
  /\ pc' = "filenameDone"
  /\ UNCHANGED <<envVars, oldVars, documents, files, ccFile, worksheetData, languages,
                 dialog,
                 selectedLanguages, mapVars, genVars, alerts, effects>>

NextFilename == CallGenerateTargetFilename

SpecFilename == InitFilename /\ [][NextFilename]_vars

\* ------------------------------------ the older script (src/unnamed/part_000)
\* Worksheets for the older script: the cells of "en" and of "fr" are free (a
\* translation may be the same text as a source text), those of "de" are texts of
\* their own.
OldWorksheets ==
  UNION {{[r \in 1..n |->
             [keys |-> <<"en", "fr", "de">>,
              cell |-> [k \in {"en", "fr", "de"} |->
                          CASE k = "en" -> en[r]
                            [] k = "fr" -> fr[r]
                            [] OTHER -> Cell(k, r, en[r])]]] :
           en \in [1..n -> CellTexts], fr \in [1..n -> CellTexts]} : n \in 0..MaxRows}

\* main has called generateLocalizedFiles(ccFile, selectedLanguages, worksheetData).
InitOld ==
  /\ appName \in {ADOBE_PHOTOSHOP, ADOBE_ILLUSTRATOR}
  /\ documents = 0
  /\ templateName \in TemplateNames
  /\ \E d \in Documents : files = [n \in {templateName} |-> d]
  /\ pc = "oldCopy"
  /\ ccFile = templateName
  /\ worksheetData \in OldWorksheets
  /\ languages = <<"en", "fr", "de">>
  /\ dialog = NoDialog
  /\ selectedLanguages \in {[source |-> "en", target |-> t] : t \in {<<"fr">>, <<"fr", "de">>}}
  /\ layerIndices = <<>>
  /\ layerTextStrings = <<>>
  /\ textLayerMap = <<>>
  /\ missingText = <<>>
  /\ mapReturned = "none"
  /\ confirmMissing = "none"
  /\ langIndex = 0
  /\ targetDoc = NoDoc
  /\ failedLang = 0
  /\ dataLayerIndices = <<>>
  /\ oldDataRow = 0
  /\ alerts = <<>>
  /\ effects = {}
  /\ fnCall = NoCall

\* The older findMatchingTextLayer(textLayers, searchText): the position in
\* textLayers of the first layer whose text, as the document holds it now, is the
\* search text but for whitespace; or -1.  Nothing is removed.
OldFindMatchingTextLayer(app, doc, textLayers, searchText) ==
  LET hits == {i \in 1..Len(textLayers) :
                 ReplaceWhitespace(getLayerText(app, doc, textLayers[i]))
                   = ReplaceWhitespace(searchText)}
  IN IF hits = {} THEN NO_MATCH ELSE Min(hits) - 1

\* ccFile.copy(targetFile)
OldCopy ==
  /\ pc = "oldCopy"
  /\ langIndex < Len(selectedLanguages.target)
  /\ LET targetFile == TargetFile(langIndex)
     IN files' = [n \in DOMAIN files \cup {targetFile} |->
                    IF n = targetFile THEN files[ccFile] ELSE files[n]]
  /\ effects' = effects \cup {"copy"}
  /\ pc' = "oldOpen"
  /\ UNCHANGED <<envVars, oldVars, documents, ccFile, worksheetData, languages, dialog,
                 selectedLanguages, mapVars, genVars, alerts, fnCall>>

\* app.open(targetFile); the loop over the rows starts.
OldOpen ==
  /\ pc = "oldOpen"
  /\ targetDoc' = [file |-> TargetFile(langIndex), layers |-> files[TargetFile(langIndex)]]
  /\ oldDataRow' = 0
  /\ effects' = effects \cup {"open"}
  /\ documents' = documents + 1
  /\ pc' = "oldRows"
  /\ UNCHANGED <<envVars, dataLayerIndices, files, ccFile, worksheetData, languages, dialog,
                 selectedLanguages, mapVars, langIndex, failedLang, alerts, fnCall>>

\* One turn of the loop over the rows: the row's layer index is looked up in the
\* open copy if dataLayerIndices has no entry for the row yet, and the row's cell
\* of the current language is written to that layer.
OldRow ==
  /\ pc = "oldRows"
  /\ oldDataRow < Len(worksheetData)
  /\ LET currentLang == selectedLanguages.target[langIndex + 1]
         textLayers == getDocumentTextLayers(appName, targetDoc.layers)
         indices ==
           IF Len(dataLayerIndices) < oldDataRow + 1
             THEN Append(dataLayerIndices,
                         OldFindMatchingTextLayer(appName, targetDoc.layers, textLayers,
                           worksheetData[oldDataRow + 1].cell[selectedLanguages.source]))
             ELSE dataLayerIndices
         layerIndex == indices[oldDataRow + 1]
     IN /\ dataLayerIndices' = indices
        /\ IF layerIndex # NO_MATCH
             THEN /\ targetDoc' = [targetDoc EXCEPT !.layers =
                                     setLayerText(appName, targetDoc.layers,
                                                  textLayers[layerIndex + 1],
                                                  worksheetData[oldDataRow + 1].cell[currentLang])]
                  /\ effects' = effects \cup {"write"}
             ELSE UNCHANGED <<targetDoc, effects>>
  /\ oldDataRow' = oldDataRow + 1
  /\ UNCHANGED <<envVars, documents, files, pc, ccFile, worksheetData, languages, dialog,
                 selectedLanguages, mapVars, langIndex, failedLang, alerts, fnCall>>

\* After the last row: targetDoc.save(), targetDoc.close(), and ++langIndex.
OldSaveClose ==
  /\ pc = "oldRows"
  /\ oldDataRow = Len(worksheetData)
  /\ files' = [files EXCEPT ![targetDoc.file] = targetDoc.layers]
  /\ effects' = effects \cup {"save"}
  /\ targetDoc' = NoDoc
  /\ langIndex' = langIndex + 1
  /\ oldDataRow' = 0
  /\ documents' = documents - 1
  /\ pc' = "oldCopy"
  /\ UNCHANGED <<envVars, dataLayerIndices, ccFile, worksheetData, languages, dialog,
                 selectedLanguages, mapVars, failedLang, alerts, fnCall>>

\* The copy, the open or the save throws: the older main catches nothing, the
\* script ends.
OldThrow ==
  /\ \/ pc = "oldCopy" /\ langIndex < Len(selectedLanguages.target)
     \/ pc = "oldOpen"
     \/ pc = "oldRows" /\ oldDataRow = Len(worksheetData)
  /\ failedLang' = langIndex + 1
  /\ pc' = "done"
  /\ UNCHANGED <<envVars, oldVars, documents, files, ccFile, worksheetData, languages,
                 dialog, selectedLanguages, mapVars, langIndex, targetDoc, alerts,
                 effects, fnCall>>

\* generateLocalizedFiles returns, and main with it.
OldReturn ==
  /\ pc = "oldCopy"
  /\ langIndex = Len(selectedLanguages.target)
  /\ pc' = "done"
  /\ UNCHANGED <<envVars, oldVars, documents, files, ccFile, worksheetData, languages,
                 dialog, selectedLanguages, mapVars, genVars, alerts, effects, fnCall>>

NextOld ==
  \/ OldCopy
  \/ OldOpen
  \/ OldRow
  \/ OldSaveClose
  \/ OldThrow
  \/ OldReturn

SpecOld == InitOld /\ [][NextOld]_vars

\* ================================================================== claims
\* The template's text elements, in document order: the texts of its layers of
\* kind TEXT.
TemplateDoc == files[templateName]
ElementTexts ==
  LET T[i \in 0..Len(TemplateDoc)] ==
        IF i = 0 THEN <<>>
        ELSE IF TemplateDoc[i].kind = "TEXT"
               THEN Append(T[i - 1], TemplateDoc[i].contents) ELSE T[i - 1]
  IN T[Len(TemplateDoc)]

\* Row r's cell in the source language (r counts from 1).
SourceCell(r) == worksheetData[r].cell[selectedLanguages.source]

\* s and t are the same string once every whitespace character is dropped from
\* both.
RECURSIVE SameButWhitespace(_, _)
SameButWhitespace(s, t) ==
  IF s # <<>> /\ Head(s) \in WhitespaceChars THEN SameButWhitespace(Tail(s), t)
  ELSE IF t # <<>> /\ Head(t) \in WhitespaceChars THEN SameButWhitespace(s, Tail(t))
  ELSE IF s = <<>> \/ t = <<>> THEN s = <<>> /\ t = <<>>
  ELSE Head(s) = Head(t) /\ SameButWhitespace(Tail(s), Tail(t))

\* The element indices rows 1..r-1 hold.
ClaimedBefore(r) == {textLayerMap[q] : q \in 1..(r - 1)} \ {NO_MATCH}

\* C1: the LayerMap is injective on its non-sentinel entries: no two distinct rows
\* hold the same element index, at any point of the matching and after it.
C1_LayerMapInjective ==
  \A i, j \in DOMAIN textLayerMap :
    (i # j /\ textLayerMap[i] # NO_MATCH) => textLayerMap[i] # textLayerMap[j]

\* C1's case: two rows with the same source text, both matched (to two elements
\* with the same text).
C1_Witness ==
  /\ mapReturned = "array"
  /\ Len(textLayerMap) = 2
  /\ SourceCell(1) = SourceCell(2)
  /\ textLayerMap[1] # NO_MATCH
  /\ textLayerMap[2] # NO_MATCH

\* C2: rows are matched in row order, and each row holds the lowest element index
\* whose text equals the row's text (whitespace apart) and that no earlier row
\* holds; it holds the sentinel -1 exactly when there is no such element.
C2_LowestUnclaimedElement ==
  textLayerMap # <<>> =>
    LET elements == ElementTexts
    IN \A r \in DOMAIN textLayerMap :
         LET free == {e \in 0..(Len(elements) - 1) :
                        /\ SameButWhitespace(elements[e + 1], SourceCell(r))
                        /\ e \notin ClaimedBefore(r)}
         IN textLayerMap[r] = IF free = {} THEN NO_MATCH ELSE Min(free)

\* C2's case: the same text in two rows and in one element only: the first row
\* has the element, the second is unmatched.
C2_Witness ==
  /\ mapReturned = "array"
  /\ Len(textLayerMap) = 2
  /\ SameButWhitespace(SourceCell(1), SourceCell(2))
  /\ Cardinality({e \in DOMAIN ElementTexts :
                    SameButWhitespace(ElementTexts[e], SourceCell(1))}) = 1
  /\ textLayerMap[1] # NO_MATCH
  /\ textLayerMap[2] = NO_MATCH

\* C3: a row is mapped to an element only if their texts are identical once all
\* whitespace is removed; and texts that differ in whitespace only do match: a row
\* is left unmatched only if every element with such a text is held by an earlier
\* row.
C3_MatchIsEqualityButWhitespace ==
  textLayerMap # <<>> =>
    LET elements == ElementTexts
    IN \A r \in DOMAIN textLayerMap :
         /\ textLayerMap[r] # NO_MATCH =>
              SameButWhitespace(elements[textLayerMap[r] + 1], SourceCell(r))
         /\ textLayerMap[r] = NO_MATCH =>
              \A e \in 0..(Len(elements) - 1) :
                SameButWhitespace(elements[e + 1], SourceCell(r)) => e \in ClaimedBefore(r)

\* C3's case: a row mapped to an element whose text is not the row's text (they
\* differ in whitespace), while another row, which differs from the other element
\* in case only, is unmatched.
C3_Witness ==
  /\ mapReturned = "array"
  /\ \E r \in DOMAIN textLayerMap :
       /\ textLayerMap[r] # NO_MATCH
       /\ ElementTexts[textLayerMap[r] + 1] # SourceCell(r)
  /\ \E r \in DOMAIN textLayerMap :
       /\ textLayerMap[r] = NO_MATCH
       /\ SourceCell(r) = <<"a">>
       /\ \E e \in DOMAIN ElementTexts : ElementTexts[e] = <<"A">>

\* The number of non-sentinel entries of the LayerMap.
Matched == Cardinality({r \in DOMAIN textLayerMap : textLayerMap[r] # NO_MATCH})

\* C4: after every prefix of the rows, the matched entries and the unmatched list
\* together count the rows processed; once mapTextLayers has returned, the
\* LayerMap has one entry per row.
C4_MatchedPlusMissingIsRows ==
  /\ Len(textLayerMap) <= Len(worksheetData)
  /\ Matched + Len(missingText) = Len(textLayerMap)
  /\ mapReturned # "none" => Len(textLayerMap) = Len(worksheetData)

\* C4's case: all rows processed, one matched to element 0 and one unmatched.
C4_Witness ==
  /\ mapReturned = "array"
  /\ Len(worksheetData) = 2
  /\ Matched = 1
  /\ 0 \in Range(textLayerMap)
  /\ Len(missingText) = 1

\* The variant of a target language as it is meant to be: the template, with the
\* text of every element some row is mapped to replaced by that row's cell.
ExpectedVariant(lang) ==
  LET ElementIndex(i) == Cardinality({j \in 1..(i - 1) : TemplateDoc[j].kind = "TEXT"})
      RowsOf(e) == {r \in DOMAIN textLayerMap : textLayerMap[r] = e}
  IN [i \in DOMAIN TemplateDoc |->
        IF TemplateDoc[i].kind = "TEXT" /\ RowsOf(ElementIndex(i)) # {}
          THEN [kind |-> "TEXT",
                contents |-> worksheetData[CHOOSE r \in RowsOf(ElementIndex(i)) : TRUE].cell[lang]]
          ELSE TemplateDoc[i]]

\* The k-th target language's variant has been saved.
VariantSaved(k) == k <= langIndex

\* The name of the file the k-th target language's variant is in.
VariantName(k) == generateTargetFilename(templateName, Chars(selectedLanguages.target[k]))

\* C5: every saved variant is a file of its own and holds, at each mapped element,
\* the row's cell of the variant's own language, and the template's text
\* everywhere else; and it stays so while the later variants are produced.
C5_VariantsIsolated ==
  (mapReturned = "array" /\ langIndex > 0) =>
    \A k \in DOMAIN selectedLanguages.target :
      VariantSaved(k) =>
        /\ VariantName(k) \in DOMAIN files
        /\ files[VariantName(k)] = ExpectedVariant(selectedLanguages.target[k])
        /\ \A j \in DOMAIN selectedLanguages.target :
             j # k => VariantName(j) # VariantName(k)

\* C5's case: generateLocalizedFiles has completed for two target languages and
\* has written text.
C5_Witness ==
  /\ pc = "done"
  /\ alerts = <<"FILE_LOCALIZE_SUCCESS">>
  /\ Len(selectedLanguages.target) = 2
  /\ "write" \in effects

\* C6: no step of the run changes the template document: neither the file nor,
\* while a copy is open, a document saved under the template's name.
C6_TemplateNeverChanges ==
  [][/\ files'[templateName] = files[templateName]
     /\ targetDoc'.file # templateName]_vars

\* C6's case: a run that wrote text into a copy and then failed part-way.
C6_Witness ==
  /\ pc = "done"
  /\ "write" \in effects
  /\ alerts = <<"FILE_LOCALIZE_ERROR">>

\* Where the last "." of a name is, or 0.
LastDot(name) ==
  IF \E i \in DOMAIN name : name[i] = "."
    THEN CHOOSE i \in DOMAIN name : name[i] = "." /\ \A j \in DOMAIN name : name[j] = "." => j <= i
    ELSE 0

\* C7: the result is the source name with "_" and the language put right before
\* the last "." of the name, or at its end when the name has no ".".
C7_FilenameSuffixBeforeExtension ==
  fnCall.result # <<>> =>
    LET name == fnCall.sourceName
        suffix == <<"_">> \o fnCall.targetLang
        k == LastDot(name)
    IN fnCall.result =
         IF k = 0 THEN name \o suffix
         ELSE SubSeq(name, 1, k - 1) \o suffix \o SubSeq(name, k, Len(name))

\* C7's case: a name with two dots.
C7_Witness ==
  /\ fnCall.result # <<>>
  /\ Cardinality({i \in DOMAIN fnCall.sourceName : fnCall.sourceName[i] = "."}) = 2
  /\ fnCall.sourceName[1] = "t"

\* The worksheet has fewer than two language columns.
FewLanguageColumns ==
  /\ worksheetData # <<>>
  /\ Cardinality(DOMAIN worksheetData[1].cell \ {ROW_NUM}) < 2

\* The dialog returned a selection without a target language.
NoTargetSelected ==
  /\ selectedLanguages.source # NULL
  /\ selectedLanguages.target = <<>>

\* C8: with fewer than two language columns, or with no target language selected,
\* the run does nothing to any document: mapTextLayers and generateLocalizedFiles
\* are not entered and no file is created.
C8_EmptyLanguageSetDoesNothing ==
  (FewLanguageColumns \/ NoTargetSelected) =>
    /\ pc \in {"getLanguages", "checkSelection", "done"}
    /\ effects = {}
    /\ DOMAIN files = {templateName}
    /\ textLayerMap = <<>>
    /\ mapReturned = "none"

\* C8's case: the user unchecked every target language and main has returned.
C8_Witness ==
  /\ NoTargetSelected
  /\ pc = "done"
  /\ alerts = <<"NO_TARGET_LANGS_SELECTED">>

\* C9: the selection the dialog returns never has the source language among its
\* targets, and its targets are column names, each once, in column order.
C9_SourceNeverTarget ==
  selectedLanguages.source # NULL =>
    LET target == selectedLanguages.target
    IN /\ selectedLanguages.source \notin Range(target)
       /\ Range(target) \subseteq Range(languages)
       /\ \A i, j \in DOMAIN target :
            i < j => IndexOf(languages, target[i]) < IndexOf(languages, target[j])

\* C9's case: the source was changed from the first language, which was then
\* checked as a target.
C9_Witness ==
  /\ selectedLanguages.source \in {"fr", "de"}
  /\ "en" \in Range(selectedLanguages.target)
  /\ Len(selectedLanguages.target) = 2

\* C10: in a host that is none of the three document kinds, the run ends at once
\* with the unsupported-application report and nothing is opened, copied or
\* written, whether or not a document is open.
C10_UnsupportedApplicationStops ==
  appName \notin {ADOBE_PHOTOSHOP, ADOBE_ILLUSTRATOR, ADOBE_INDESIGN} =>
    /\ pc \in {"getCCFile", "done"}
    /\ pc = "done" => alerts = <<"UNSUPPORTED_APPLICATION">>
    /\ effects = {}
    /\ DOMAIN files = {templateName}

\* The rows mapTextLayers left unmatched.
UnmatchedRows == {r \in DOMAIN textLayerMap : textLayerMap[r] = NO_MATCH}

\* The variants on disk and the open copy, each with its language.
VariantDocs ==
  {[lang |-> selectedLanguages.target[k], layers |-> files[VariantName(k)]] :
     k \in {j \in DOMAIN selectedLanguages.target : VariantName(j) \in DOMAIN files}}
  \cup (IF targetDoc = NoDoc THEN {}
        ELSE {[lang |-> selectedLanguages.target[langIndex + 1], layers |-> targetDoc.layers]})

\* The texts held by the elements of the variants on disk and of the open copy.
VariantTexts == UNION {{d.layers[i].contents : i \in DOMAIN d.layers} : d \in VariantDocs}

\* C11: mapTextLayers returns only after every row was processed, and the
\* confirmation is shown exactly when at least one row is unmatched.  When the user
\* declines, mapTextLayers returns null, main returns, and nothing was copied,
\* written or saved.  When the user accepts, or no row is unmatched, main goes on
\* to generateLocalizedFiles, and no write is made for an unmatched row: an
\* element of a variant that differs from the template's holds the cell of a
\* matched row.
C11_UnmatchedRowsAskedThenSkipped ==
  /\ mapReturned # "none" =>
       /\ Len(textLayerMap) = Len(worksheetData)
       /\ (confirmMissing # "none") <=> (UnmatchedRows # {})
  /\ mapReturned = "null" <=> confirmMissing = "declined"
  /\ confirmMissing = "declined" =>
       /\ pc = "done"
       /\ DOMAIN files = {templateName}
       /\ targetDoc = NoDoc
       /\ effects \cap {"copy", "write", "save"} = {}
       /\ langIndex = 0
       /\ Range(alerts) \cap {"FILE_LOCALIZE_SUCCESS", "FILE_LOCALIZE_ERROR"} = {}
  /\ mapReturned = "array" =>
       /\ pc \in {"genCopy", "genOpen", "genSave", "done"}
       /\ pc = "done" =>
            Range(alerts) \cap {"FILE_LOCALIZE_SUCCESS", "FILE_LOCALIZE_ERROR"} # {}
       /\ LET template == TemplateDoc
          IN \A d \in VariantDocs : \A i \in DOMAIN d.layers :
               d.layers[i] # template[i] =>
                 \E r \in DOMAIN textLayerMap \ UnmatchedRows :
                   d.layers[i].contents = worksheetData[r].cell[d.lang]

\* C11's case: one row matched and one not, the user accepted, and both variants
\* are saved: they hold the translations of the matched row.
C11_Witness ==
  /\ confirmMissing = "accepted"
  /\ Cardinality(UnmatchedRows) = 1
  /\ Len(textLayerMap) = 2
  /\ Len(selectedLanguages.target) = 2
  /\ langIndex = 2
  /\ "FILE_LOCALIZE_SUCCESS" \in Range(alerts)
  /\ \A k \in 1..2 : \E r \in DOMAIN textLayerMap :
       /\ textLayerMap[r] # NO_MATCH
       /\ worksheetData[r].cell[selectedLanguages.target[k]] \in VariantTexts

\* C11's other case: a row is unmatched and the user declined.
C11_WitnessDeclined ==
  /\ confirmMissing = "declined"
  /\ mapReturned = "null"
  /\ UnmatchedRows # {}
  /\ pc = "done"

\* How many times a message was shown.
Shown(message) == Cardinality({i \in DOMAIN alerts : alerts[i] = message})

C12_WitnessSecondLanguage ==
  /\ failedLang = 2
  /\ Len(selectedLanguages.target) = 2
  /\ VariantName(1) \in DOMAIN files
  /\ VariantName(2) \notin DOMAIN files
  /\ pc = "done"

\* C13: in the older script, no two rows of dataLayerIndices hold the same layer
\* index (the sentinel -1 apart), so no layer is written twice in one variant.
C13_DataLayerIndicesInjective ==
  \A i, j \in DOMAIN dataLayerIndices :
    (i # j /\ dataLayerIndices[i] # NO_MATCH) => dataLayerIndices[i] # dataLayerIndices[j]

=============================================================================
